---------------------------- MODULE Spec2Model ----------------------------
(***************************************************************************)
(* Model of SOC/common/simulation.py: the Simulation base class (run,      *)
(* AvalancheLoop, _save_snapshot) and the module-level function            *)
(* clean_boundary_inplace.                                                 *)
(*                                                                         *)
(* Two specifications share the module:                                    *)
(*   Spec    - a Simulation object driven through run(N_iterations); the   *)
(*             concrete model's drive/topple/dissipate are the environment.*)
(*   SpecCB  - clean_boundary_inplace applied to arbitrary small arrays.   *)
(***************************************************************************)
EXTENDS Integers, Sequences, FiniteSets, TLC

VARIABLES
    \* ---- fields of Simulation ----
    L,                  \* self.L
    save_every,         \* self.save_every: None or Some(c)
    model,              \* the methods the concrete subclass overrides
    values,             \* self.values (owned by the concrete model)
    visited,            \* self.visited
    data_acquisition,   \* self.data_acquisition
    saved_snapshots,    \* self.saved_snapshots (the zarr array)
    \* ---- locals of run / AvalancheLoop ----
    N_iterations,       \* argument of run
    i,                  \* loop index of run
    number_of_iterations, \* local of AvalancheLoop
    observables,        \* value returned by AvalancheLoop
    pc,                 \* position in run
    error,              \* exception that ended run, or "none"
    \* ---- history (not read by the program) ----
    written,            \* frame indices stored by _save_snapshot in this run
    len0,               \* Len(data_acquisition) when run was called
    events,             \* calls made during the current driving step
    steps,              \* per driving step of this run: values at its end, cells marked, true rounds
    visitedAtEntry,     \* visited when AvalancheLoop was entered
    priorSteps,         \* sum of N_iterations over the earlier calls of run
    \* ---- clean_boundary_inplace applied to an array ----
    array,              \* the array argument (mutated in place)
    array0,             \* the array before the first call
    array1,             \* the array after the first call
    boundary_size,      \* argument
    fill_value,         \* argument
    applied,            \* number of calls made so far
    wrapped             \* the call went through Simulation.clean_boundary_inplace

simVars == <<L, save_every, model, values, visited, data_acquisition, saved_snapshots,
             N_iterations, i, number_of_iterations, observables, pc, error,
             written, len0, events, steps, visitedAtEntry, priorSteps>>
cbVars == <<array, array0, array1, boundary_size, fill_value, applied, wrapped>>
vars == <<simVars, cbVars>>

---------------------------------------------------------------------------
(* Bounds of the model *)

\* largest N_iterations passed to run
MaxN == 3
\* largest snapshot cadence passed to the constructor
MaxSaveEvery == 2
\* largest number of topple rounds that return true in one avalanche
MaxRounds == 2
\* largest number of rows / columns of an array given to clean_boundary_inplace
MaxDim == 3
\* largest boundary_size given to clean_boundary_inplace
MaxBoundary == 2

\* lattice sizes L given to the constructor
LatticeSizes == {1}
\* cell contents of an array given to clean_boundary_inplace, and fill values
CellValues == {0, 1}

\* Simulation.BOUNDARY_SIZE
BOUNDARY_SIZE == 1

---------------------------------------------------------------------------
(* Python values *)

Max(a, b) == IF a >= b THEN a ELSE b
Min(a, b) == IF a <= b THEN a ELSE b

\* Optional int: None is the empty tuple, an int c is <<c>>.
None == <<>>
Some(c) == <<c>>
IsNone(x) == x = None
IntOf(x) == x[1]

\* A 2D array is a function on Shape(rows, cols), indexed from 0 as in numpy.
Shape(rows, cols) == (0 .. rows - 1) \X (0 .. cols - 1)
NRows(a) == Cardinality({p[1] : p \in DOMAIN a})
NCols(a) == Cardinality({p[2] : p \in DOMAIN a})

\* Python slice bound k on an axis of length n: negative counts from the end,
\* the result is clamped to 0..n.
SliceBound(k, n) == IF k < 0 THEN Max(k + n, 0) ELSE Min(k, n)
\* indices selected by [:k] and by [k:] on an axis of length n
SliceTo(k, n) == 0 .. SliceBound(k, n) - 1
SliceFrom(k, n) == SliceBound(k, n) .. n - 1

\* array[rs, cs] = v for index sets rs, cs
AssignBlock(a, rs, cs, v) ==
    [p \in DOMAIN a |-> IF p[1] \in rs /\ p[2] \in cs THEN v ELSE a[p]]


---------------------------------------------------------------------------
(* clean_boundary_inplace(array, boundary_size, fill_value), lines 212-232 *)

\* array[:boundary_size, :] = fill_value
FillFirstRows(a, b, f) == AssignBlock(a, SliceTo(b, NRows(a)), 0 .. NCols(a) - 1, f)
\* array[-boundary_size:, :] = fill_value
FillLastRows(a, b, f) == AssignBlock(a, SliceFrom(0 - b, NRows(a)), 0 .. NCols(a) - 1, f)
\* array[:, :boundary_size] = fill_value
FillFirstCols(a, b, f) == AssignBlock(a, 0 .. NRows(a) - 1, SliceTo(b, NCols(a)), f)
\* array[:, -boundary_size:] = fill_value
FillLastCols(a, b, f) == AssignBlock(a, 0 .. NRows(a) - 1, SliceFrom(0 - b, NCols(a)), f)

\* array[rs, cs] += v, the slip of writing += for =
AddBlock(a, rs, cs, v) ==
    [p \in DOMAIN a |-> IF p[1] \in rs /\ p[2] \in cs THEN a[p] + v ELSE a[p]]

\* Faulty variant: the last statement (line 231) is missing.
clean_boundary_inplace_no_last_cols(a, b, f) ==
    FillFirstCols(FillLastRows(FillFirstRows(a, b, f), b, f), b, f)

\* Faulty variant: the row statements accumulate instead of assigning.
clean_boundary_inplace_accumulate(a, b, f) ==
    LET a1 == AddBlock(a, SliceTo(b, NRows(a)), 0 .. NCols(a) - 1, f)
        a2 == AddBlock(a1, SliceFrom(0 - b, NRows(a)), 0 .. NCols(a) - 1, f)
    IN FillLastCols(FillFirstCols(a2, b, f), b, f)

\* The four statements in order; returns the (mutated) array.
clean_boundary_inplace(a, b, f) ==
    FillLastCols(FillFirstCols(FillLastRows(FillFirstRows(a, b, f), b, f), b, f), b, f)

---------------------------------------------------------------------------
(* Specification SpecCB: clean_boundary_inplace on arbitrary small arrays *)

BoundarySizes == (0 - 1) .. MaxBoundary
Arrays == UNION {[Shape(r, c) -> CellValues] : r \in 1 .. MaxDim, c \in 1 .. MaxDim}

\* The Simulation object is not involved.
SimAbsent ==
    /\ L = 1
    /\ save_every = None
    /\ model = {}
    /\ priorSteps = 0
    /\ values = <<>>
    /\ visited = <<>>
    /\ data_acquisition = <<>>
    /\ saved_snapshots = <<>>
    /\ N_iterations = 0
    /\ i = 0
    /\ number_of_iterations = 0
    /\ observables = <<>>
    /\ pc = "absent"
    /\ error = "none"
    /\ written = {}
    /\ len0 = 0
    /\ events = <<>>
    /\ steps = <<>>
    /\ visitedAtEntry = <<>>

InitCB ==
    /\ SimAbsent
    /\ array \in Arrays
    /\ array0 = array
    /\ array1 = array
    /\ boundary_size \in BoundarySizes
    /\ fill_value \in CellValues
    /\ applied = 0
    /\ wrapped = FALSE

\* One call clean_boundary_inplace(array, boundary_size, fill_value); the
\* model makes at most two calls in a row on the same array.
CallCleanBoundary ==
    /\ applied < 2
    /\ ~wrapped
    /\ array' = clean_boundary_inplace(array, boundary_size, fill_value)
    /\ array1' = IF applied = 0 THEN array' ELSE array1
    /\ applied' = applied + 1
    /\ UNCHANGED <<array0, boundary_size, fill_value, wrapped>>
    /\ UNCHANGED simVars

\* names bound in the body of the classmethod (line 61): its parameters
WrapperLocals == {"cls", "array"}
\* names bound at module level that the body can see
ModuleGlobals == {"np", "clean_boundary_inplace", "Simulation"}

\* Simulation.clean_boundary_inplace(array), lines 60-69: the body reads the
\* name self, which is neither a parameter nor a global, so evaluating the
\* argument self.BOUNDARY_SIZE raises NameError before the function is called.
CallWrapper ==
    /\ applied = 0
    /\ ~wrapped
    /\ wrapped' = TRUE
    /\ IF "self" \in WrapperLocals \cup ModuleGlobals
       THEN /\ array' = clean_boundary_inplace(array, BOUNDARY_SIZE, 0)
            /\ array1' = array'
            /\ applied' = applied + 1
            /\ error' = "none"
       ELSE /\ error' = "NameError"
            /\ UNCHANGED <<array, array1, applied>>
    /\ UNCHANGED <<array0, boundary_size, fill_value>>
    /\ UNCHANGED <<L, save_every, model, priorSteps, values, visited,
                   data_acquisition, saved_snapshots, N_iterations, i,
                   number_of_iterations, observables, pc, written, len0,
                   events, steps, visitedAtEntry>>

NextCB ==
    \/ CallCleanBoundary
    \/ CallWrapper

SpecCB == InitCB /\ [][NextCB]_vars

\* cell p of an array of the given shape lies within b of an edge
WithinBoundary(p, rows, cols, b) ==
    \/ p[1] < b
    \/ p[1] >= rows - b
    \/ p[2] < b
    \/ p[2] >= cols - b

\* C6: for boundary_size >= 1, after one call every cell within boundary_size
\* of an edge equals fill_value and every other cell keeps its value.
C6_BoundaryFilledInteriorKept ==
    (applied = 1 /\ boundary_size >= 1) =>
        /\ DOMAIN array = DOMAIN array0
        /\ \A p \in DOMAIN array :
              IF WithinBoundary(p, NRows(array0), NCols(array0), boundary_size)
              THEN array[p] = fill_value
              ELSE array[p] = array0[p]

\* C6 witness: a call with boundary_size >= 1 that changed a boundary cell
\* and left an interior cell that differs from fill_value.
C6_Witness ==
    /\ applied = 1
    /\ boundary_size >= 1
    /\ \E p \in DOMAIN array :
          /\ WithinBoundary(p, NRows(array0), NCols(array0), boundary_size)
          /\ array0[p] # fill_value
    /\ \E p \in DOMAIN array :
          /\ ~WithinBoundary(p, NRows(array0), NCols(array0), boundary_size)
          /\ array[p] # fill_value

\* C7 (as claimed): with boundary_size = 0 a call leaves every cell unchanged.
C7_ZeroBoundaryNoOp ==
    (applied >= 1 /\ boundary_size = 0) => array = array0

\* C8: two calls in a row give the same array as one call.
C8_Idempotent ==
    (applied = 2) => array = array1

\* C8 witness: a second call was made on an array the first call had changed.
C8_Witness ==
    /\ applied = 2
    /\ array1 # array0
    /\ boundary_size >= 1


---------------------------------------------------------------------------
(* The Simulation object: __init__, lines 19-32 *)

\* self.L_with_boundary = L + 2 * self.BOUNDARY_SIZE
L_with_boundary(l) == l + 2 * BOUNDARY_SIZE
Cells(l) == Shape(L_with_boundary(l), L_with_boundary(l))
Interior(l) ==
    {p \in Cells(l) : /\ BOUNDARY_SIZE <= p[1] /\ p[1] < l + BOUNDARY_SIZE
                      /\ BOUNDARY_SIZE <= p[2] /\ p[2] < l + BOUNDARY_SIZE}
Neighbors(p) ==
    {<<p[1] - 1, p[2]>>, <<p[1] + 1, p[2]>>, <<p[1], p[2] - 1>>, <<p[1], p[2] + 1>>}

\* np.zeros((L_with_boundary, L_with_boundary), ...)
Zeros(l) == [p \in Cells(l) |-> 0]
NoneVisited(l) == [p \in Cells(l) |-> FALSE]

\* the class attribute saved_snapshots = NotImplemented: no store yet
NotImplemented == <<>>

\* the methods a subclass may override (lines 34-58)
Methods == {"drive", "topple", "dissipate"}
Models == SUBSET Methods

\* save_every is an int or None
Cadences == {None} \cup {Some(c) : c \in 1 .. MaxSaveEvery}

Init ==
    /\ L \in LatticeSizes
    /\ save_every \in Cadences
    /\ model \in Models
    /\ priorSteps = 0
    /\ values = Zeros(L)
    /\ visited = NoneVisited(L)
    /\ data_acquisition = <<>>
    /\ saved_snapshots = NotImplemented
    /\ N_iterations = 0
    /\ i = 0
    /\ number_of_iterations = 0
    /\ observables = <<>>
    /\ pc = "idle"
    /\ error = "none"
    /\ written = {}
    /\ len0 = 0
    /\ events = <<>>
    /\ steps = <<>>
    /\ visitedAtEntry = NoneVisited(L)
    /\ array = <<>>
    /\ array0 = <<>>
    /\ array1 = <<>>
    /\ boundary_size = 0
    /\ fill_value = 0
    /\ applied = 0
    /\ wrapped = FALSE

---------------------------------------------------------------------------
(* run, lines 90-122, and _save_snapshot, lines 124-125 *)

\* Faulty variant: the store is sized without the floor of one frame.
FrameCountNoFloor(n, c) == n \div c

\* max([N_iterations // self.save_every, 1]): frames of the store
FrameCount(n, c) == Max(n \div c, 1)

\* i // self.save_every: the frame _save_snapshot(i) writes
SnapshotIndex(k, c) == k \div c

\* (i % self.save_every) == 0
SnapshotDue(k, c) == k % c = 0

\* Faulty variant: the frame keeps a reference to the array instead of its contents.
StoredFrameAlias(v) == [alias |-> TRUE, data |-> v]

\* saved_snapshots[...] = self.values: the store keeps the contents of the
\* array at the time of the assignment.
StoredFrame(v) == [alias |-> FALSE, data |-> v]

\* what reading frame k of the store yields
FrameAt(k) ==
    IF saved_snapshots[k].alias THEN values ELSE saved_snapshots[k].data

\* zarr.open(..., shape=(frames, L_with_boundary, L_with_boundary)): a new
\* store whose frames hold the fill value 0
NewStore(frames, l) == [k \in 0 .. frames - 1 |-> StoredFrame(Zeros(l))]

\* for i in range(N_iterations): where the loop goes with index k
LoopHead(k, n) == IF k < n THEN "drive" ELSE "done"

\* run(n) on a simulation with no cadence: N_iterations // None raises
\* TypeError while the arguments of zarr.open are evaluated (line 105).
RunNoCadence(n) ==
    /\ pc \in {"idle", "done"}
    /\ Len(data_acquisition) + n <= MaxN
    /\ IsNone(save_every)
    /\ N_iterations' = n
    /\ priorSteps' = priorSteps + N_iterations
    /\ len0' = Len(data_acquisition)
    /\ written' = {}
    /\ steps' = <<>>
    /\ events' = <<>>
    /\ error' = "TypeError"
    /\ pc' = "failed"
    /\ UNCHANGED <<L, save_every, model, values, visited, data_acquisition,
                   saved_snapshots, i, number_of_iterations, observables,
                   visitedAtEntry>>
    /\ UNCHANGED cbVars

\* run(n) up to the head of the loop: the store is opened.
Run(n) ==
    /\ pc \in {"idle", "done"}
    /\ Len(data_acquisition) + n <= MaxN
    /\ ~IsNone(save_every)
    /\ N_iterations' = n
    /\ priorSteps' = priorSteps + N_iterations
    /\ saved_snapshots' = NewStore(FrameCount(n, IntOf(save_every)), L)
    /\ i' = 0
    /\ len0' = Len(data_acquisition)
    /\ written' = {}
    /\ steps' = <<>>
    /\ events' = <<>>
    /\ error' = "none"
    /\ pc' = LoopHead(0, n)
    /\ UNCHANGED <<L, save_every, model, values, visited, data_acquisition,
                   number_of_iterations, observables, visitedAtEntry>>
    /\ UNCHANGED cbVars


---------------------------------------------------------------------------
(* The concrete model: drive, topple and dissipate are overridden by the   *)
(* subclass (lines 34-58 only declare them).  They are the environment of  *)
(* run and AvalancheLoop: drive adds a grain at an interior site, topple   *)
(* moves a grain from an interior site to a neighbour and marks cells in   *)
(* visited, dissipate empties the boundary ring.                           *)

Event(op, ret, marks) == [op |-> op, ret |-> ret, marks |-> marks]

\* values after drive() adds one grain at site s
DriveValues(v, s) == [v EXCEPT ![s] = @ + 1]

\* values after a topple round that relaxes site s towards neighbour nb
ToppleValues(v, s, nb) == [v EXCEPT ![s] = @ - 1, ![nb] = @ + 1]

\* cells a topple round marks: a relaxing round marks the source and, if
\* wide, its neighbours; a round that relaxes nothing marks nothing unless
\* wide, when it still marks the site it looked at
ToppleMarks(ret, s, wide) ==
    IF ret THEN (IF wide THEN {s} \cup Neighbors(s) ELSE {s})
    ELSE (IF wide THEN {s} ELSE {})

\* visited[cells] = True
Mark(v, cells) == [p \in DOMAIN v |-> v[p] \/ p \in cells]

\* values after dissipate(): the boundary ring is emptied, the cells of the
\* lattice proper are kept
DissipateValues(v) == [p \in DOMAIN v |-> IF p \in Interior(L) THEN v[p] ELSE 0]

\* values after a relaxing topple round of a model with the given overrides:
\* a model that leaves dissipate to the base class empties the boundary ring
\* in topple itself
RelaxValues(v, s, nb, overrides) ==
    IF "dissipate" \in overrides THEN ToppleValues(v, s, nb)
    ELSE DissipateValues(ToppleValues(v, s, nb))

---------------------------------------------------------------------------
(* AvalancheLoop, lines 71-88 *)

\* Faulty variant: the mask is not cleared when an avalanche starts.
ResetVisitedSkipped(v) == v

\* self.visited[...] = False
ResetVisited(v) == [p \in DOMAIN v |-> FALSE]

\* Faulty variant: only interior cells are counted.
VisitedSumInterior(v) == Cardinality({p \in DOMAIN v : v[p] /\ p \in Interior(L)})

\* self.visited.sum()
VisitedSum(v) == Cardinality({p \in DOMAIN v : v[p]})

\* Faulty variant: the size is stored under the key avalanche_size.
ObservablesSnakeCase(size, n) == [avalanche_size |-> size, number_of_iterations |-> n]

\* dict(AvalancheSize=..., number_of_iterations=...)
Observables(size, n) == [AvalancheSize |-> size, number_of_iterations |-> n]

\* Faulty variant: drive has a default body that does nothing, as dissipate has.
BaseRaisesToppleOnly(method) == method = "topple"

\* the base-class methods that raise NotImplementedError (lines 40 and 48);
\* the base dissipate is `pass` (line 58)
BaseRaises(method) == method \in {"drive", "topple"}

\* Faulty variant: the loop is left after one round whatever topple returns.
AfterToppleCapped(ret) ==
    IF ret /\ number_of_iterations < 1 THEN "dissipate" ELSE "return"

\* Faulty variant: the test of the loop is inverted.
AfterToppleInverted(ret) == IF ret THEN "return" ELSE "dissipate"

\* while self.topple(): the body runs when topple returned true, the loop
\* ends when it returned false; nothing else ends it
AfterTopple(ret) == IF ret THEN "dissipate" ELSE "return"

\* Faulty variant: the counter is advanced before and after dissipate.
NextIterationCountTwice(n) == n + 2

\* number_of_iterations += 1
NextIterationCount(n) == n + 1

\* Faulty variant: the list is replaced by the new record.
AppendRecordReplaces(d, o) == <<o>>

\* self.data_acquisition.append(observables)
AppendRecord(d, o) == Append(d, o)

\* self.drive(), line 118
Drive(s, m) ==
    /\ pc = "drive"
    /\ "drive" \in model
    /\ s \in Interior(L)
    /\ values' = DriveValues(values, s)
    /\ visited' = IF m THEN Mark(visited, {s}) ELSE visited
    /\ events' = <<Event("drive", FALSE, IF m THEN {s} ELSE {})>>
    /\ pc' = "avalanche"
    /\ UNCHANGED <<L, save_every, model, priorSteps, data_acquisition, saved_snapshots,
                   N_iterations, i, number_of_iterations, observables, error,
                   written, len0, steps, visitedAtEntry>>
    /\ UNCHANGED cbVars

\* self.drive() on a model that does not override drive, line 118: the base
\* method raises (line 40), which ends run
DriveBase ==
    /\ pc = "drive"
    /\ "drive" \notin model
    /\ events' = <<Event("drive", FALSE, {})>>
    /\ IF BaseRaises("drive")
       THEN error' = "NotImplementedError" /\ pc' = "failed"
       ELSE error' = error /\ pc' = "avalanche"
    /\ UNCHANGED <<L, save_every, model, priorSteps, values, visited,
                   data_acquisition, saved_snapshots, N_iterations, i,
                   number_of_iterations, observables, written, len0, steps,
                   visitedAtEntry>>
    /\ UNCHANGED cbVars

\* AvalancheLoop up to the first test of the loop, lines 81-82
AvalancheStart ==
    /\ pc = "avalanche"
    /\ number_of_iterations' = 0
    /\ visitedAtEntry' = visited
    /\ visited' = ResetVisited(visited)
    /\ pc' = "topple"
    /\ UNCHANGED <<L, save_every, model, priorSteps, values, data_acquisition, saved_snapshots,
                   N_iterations, i, observables, error, written, len0,
                   events, steps>>
    /\ UNCHANGED cbVars

\* while self.topple(), line 83: one call of the model's topple, which
\* returns ret; a model returns true at most MaxRounds times per avalanche
Topple(ret, s, nb, wide) ==
    /\ pc = "topple"
    /\ "topple" \in model
    /\ s \in Interior(L)
    /\ nb \in Neighbors(s)
    /\ ret => (number_of_iterations < MaxRounds /\ values[s] > 0)
    /\ ~ret => nb = <<s[1], s[2] + 1>>
    /\ values' = IF ret THEN RelaxValues(values, s, nb, model) ELSE values
    /\ visited' = Mark(visited, ToppleMarks(ret, s, wide))
    /\ events' = Append(events, Event("topple", ret, ToppleMarks(ret, s, wide)))
    /\ pc' = AfterTopple(ret)
    /\ UNCHANGED <<L, save_every, model, priorSteps, data_acquisition, saved_snapshots,
                   N_iterations, i, number_of_iterations, observables, error,
                   written, len0, steps, visitedAtEntry>>
    /\ UNCHANGED cbVars

\* while self.topple() on a model that does not override topple, line 83:
\* the base method raises (line 48), which ends AvalancheLoop and run
ToppleBase ==
    /\ pc = "topple"
    /\ "topple" \notin model
    /\ events' = Append(events, Event("topple", FALSE, {}))
    /\ IF BaseRaises("topple")
       THEN error' = "NotImplementedError" /\ pc' = "failed"
       ELSE error' = error /\ pc' = AfterTopple(FALSE)
    /\ UNCHANGED <<L, save_every, model, priorSteps, values, visited,
                   data_acquisition, saved_snapshots, N_iterations, i,
                   number_of_iterations, observables, written, len0, steps,
                   visitedAtEntry>>
    /\ UNCHANGED cbVars

\* the loop body, lines 84-85: self.dissipate(); number_of_iterations += 1.
\* The base dissipate does nothing (line 58).
Dissipate ==
    /\ pc = "dissipate"
    /\ values' = IF "dissipate" \in model THEN DissipateValues(values) ELSE values
    /\ number_of_iterations' = NextIterationCount(number_of_iterations)
    /\ events' = Append(events, Event("dissipate", FALSE, {}))
    /\ pc' = "topple"
    /\ UNCHANGED <<L, save_every, model, priorSteps, visited, data_acquisition, saved_snapshots,
                   N_iterations, i, observables, error, written, len0, steps,
                   visitedAtEntry>>
    /\ UNCHANGED cbVars

\* lines 87-88: the result of AvalancheLoop, assigned to observables (line 119)
AvalancheReturn ==
    /\ pc = "return"
    /\ observables' = Observables(VisitedSum(visited), number_of_iterations)
    /\ pc' = "append"
    /\ UNCHANGED <<L, save_every, model, priorSteps, values, visited, data_acquisition,
                   saved_snapshots, N_iterations, i, number_of_iterations,
                   error, written, len0, events, steps, visitedAtEntry>>
    /\ UNCHANGED cbVars

---------------------------------------------------------------------------
(* the rest of the loop body of run, lines 120-122 *)

ToppleEvents(es) == SelectSeq(es, LAMBDA e : e.op = "topple")
DissipateEvents(es) == SelectSeq(es, LAMBDA e : e.op = "dissipate")
TrueRounds(es) == Len(SelectSeq(es, LAMBDA e : e.op = "topple" /\ e.ret))
ToppleMarked(es) ==
    UNION {ToppleEvents(es)[k].marks : k \in 1 .. Len(ToppleEvents(es))}

\* self.data_acquisition.append(observables), line 120
AppendObservables ==
    /\ pc = "append"
    /\ data_acquisition' = AppendRecord(data_acquisition, observables)
    /\ steps' = Append(steps, [values |-> values,
                               marked |-> ToppleMarked(events),
                               rounds |-> TrueRounds(events)])
    /\ events' = Append(events, Event("append", FALSE, {}))
    /\ pc' = "snapshot"
    /\ UNCHANGED <<L, save_every, model, priorSteps, values, visited, saved_snapshots,
                   N_iterations, i, number_of_iterations, observables, error,
                   written, len0, visitedAtEntry>>
    /\ UNCHANGED cbVars

\* line 121 true, and line 125 stores the frame
SaveSnapshot ==
    /\ pc = "snapshot"
    /\ ~IsNone(save_every)
    /\ SnapshotDue(i, IntOf(save_every))
    /\ SnapshotIndex(i, IntOf(save_every)) \in DOMAIN saved_snapshots
    /\ saved_snapshots' =
          [saved_snapshots EXCEPT ![SnapshotIndex(i, IntOf(save_every))] =
              StoredFrame(values)]
    /\ written' = written \cup {SnapshotIndex(i, IntOf(save_every))}
    /\ events' = Append(events, Event("snapshot", FALSE, {}))
    /\ i' = i + 1
    /\ pc' = LoopHead(i + 1, N_iterations)
    /\ UNCHANGED <<L, save_every, model, priorSteps, values, visited, data_acquisition,
                   N_iterations, number_of_iterations, observables, error,
                   len0, steps, visitedAtEntry>>
    /\ UNCHANGED cbVars

\* line 121 true, and line 125 indexes past the end of the store: the store
\* raises an index error, which ends run
SaveSnapshotOutOfBounds ==
    /\ pc = "snapshot"
    /\ ~IsNone(save_every)
    /\ SnapshotDue(i, IntOf(save_every))
    /\ SnapshotIndex(i, IntOf(save_every)) \notin DOMAIN saved_snapshots
    /\ error' = "IndexError"
    /\ pc' = "failed"
    /\ UNCHANGED <<L, save_every, model, priorSteps, values, visited, data_acquisition,
                   saved_snapshots, N_iterations, i, number_of_iterations,
                   observables, written, len0, events, steps, visitedAtEntry>>
    /\ UNCHANGED cbVars

\* line 121 false: no snapshot at this step
SkipSnapshot ==
    /\ pc = "snapshot"
    /\ (IsNone(save_every) \/ ~SnapshotDue(i, IntOf(save_every)))
    /\ i' = i + 1
    /\ pc' = LoopHead(i + 1, N_iterations)
    /\ UNCHANGED <<L, save_every, model, priorSteps, values, visited, data_acquisition,
                   saved_snapshots, N_iterations, number_of_iterations,
                   observables, error, written, len0, events, steps,
                   visitedAtEntry>>
    /\ UNCHANGED cbVars

Next ==
    \/ \E n \in 0 .. MaxN : RunNoCadence(n)
    \/ \E n \in 0 .. MaxN : Run(n)
    \/ \E s \in Interior(L), m \in BOOLEAN : Drive(s, m)
    \/ DriveBase
    \/ AvalancheStart
    \/ \E ret \in BOOLEAN, s \in Interior(L), wide \in BOOLEAN :
          \E nb \in Neighbors(s) : Topple(ret, s, nb, wide)
    \/ ToppleBase
    \/ Dissipate
    \/ AvalancheReturn
    \/ AppendObservables
    \/ SaveSnapshot
    \/ SaveSnapshotOutOfBounds
    \/ SkipSnapshot

Spec == Init /\ [][Next]_vars


---------------------------------------------------------------------------
(* Properties of run *)

\* run has ended, by returning or by an exception
RunEnded == pc \in {"done", "failed"}

\* the subclass overrides the two methods the base class requires
ConcreteModel == {"drive", "topple"} \subseteq model

\* records appended by the current call of run
NewRecords == SubSeq(data_acquisition, len0 + 1, Len(data_acquisition))

\* C1 (as claimed): when run(N) on a fresh simulation of a concrete model has
\* ended, it has left exactly N records, the k-th being the result of the
\* avalanche of driving step k, with nonnegative integer fields.
C1_RunLeavesNRecords ==
    (RunEnded /\ len0 = 0 /\ ConcreteModel) =>
        /\ Len(data_acquisition) = N_iterations
        /\ Len(steps) = N_iterations
        /\ \A k \in 1 .. Len(data_acquisition) :
              /\ data_acquisition[k].AvalancheSize = Cardinality(steps[k].marked)
              /\ data_acquisition[k].number_of_iterations = steps[k].rounds
              /\ data_acquisition[k].AvalancheSize \in Nat
              /\ data_acquisition[k].number_of_iterations \in Nat

\* C2 (as claimed): every snapshot index written during run(N) is below the
\* pre-allocated frame count max(N // save_every, 1).
C2_SnapshotIndexInBounds ==
    (pc = "snapshot" /\ ~IsNone(save_every) /\ i < N_iterations
        /\ i % IntOf(save_every) = 0) =>
        i \div IntOf(save_every) < Max(N_iterations \div IntOf(save_every), 1)

\* C3 (as claimed): after run(N) with cadence c >= 1 the number of snapshots
\* captured equals max(N // c, 1).
C3_SnapshotCountAsClaimed ==
    (RunEnded /\ ~IsNone(save_every) /\ ConcreteModel) =>
        Cardinality(written) = Max(N_iterations \div IntOf(save_every), 1)

\* C3 (amended): after run(N) of a concrete model with cadence c >= 1 has
\* ended, by returning or by the index error, the number of snapshots captured
\* equals max(N // c, 1) when N >= 1 and is 0 when N = 0; the store has
\* max(N // c, 1) frames.
C3_SnapshotCount ==
    (RunEnded /\ ~IsNone(save_every) /\ ConcreteModel) =>
        /\ Cardinality(written) =
              IF N_iterations = 0 THEN 0
              ELSE Max(N_iterations \div IntOf(save_every), 1)
        /\ written = IF N_iterations = 0 THEN {} ELSE DOMAIN saved_snapshots
        /\ Cardinality(DOMAIN saved_snapshots) =
              Max(N_iterations \div IntOf(save_every), 1)

\* C3 witness: a run of several steps returned with one snapshot per cadence
\* period, fewer than its steps.
C3_Witness ==
    /\ pc = "done"
    /\ ~IsNone(save_every)
    /\ N_iterations >= 2
    /\ Cardinality(written) >= 2

\* C4: every frame written holds the lattice values as they were at the end
\* of driving step k * save_every, during the rest of the run and after it,
\* whatever later steps do to values.
C4_SnapshotIsCopyOfStep ==
    ~IsNone(save_every) =>
        \A k \in written :
            /\ k * IntOf(save_every) + 1 <= Len(steps)
            /\ FrameAt(k) = steps[k * IntOf(save_every) + 1].values

\* C4 witness: run returned and a written frame differs from the current
\* values, which later steps have changed.
C4_Witness ==
    /\ pc = "done"
    /\ ~IsNone(save_every)
    /\ \E k \in written :
          /\ FrameAt(k) # values
          /\ k * IntOf(save_every) + 1 < Len(steps)

\* C5 (as claimed): with save_every = None, run(N) performs all N driving
\* steps, appends N records and captures no snapshot.
C5_NoCadenceRunsAllSteps ==
    (RunEnded /\ IsNone(save_every) /\ ConcreteModel) =>
        /\ Len(steps) = N_iterations
        /\ Len(NewRecords) = N_iterations
        /\ written = {}

---------------------------------------------------------------------------
(* Properties of AvalancheLoop *)

\* AvalancheLoop has returned and its result is in observables
AvalancheReturned == pc = "append"

\* C9: when the first topple call returns false without marking a site,
\* AvalancheLoop returns size 0 and 0 iterations, whatever visited held on
\* entry, and dissipate is not called.
C9_ImmediateQuiescence ==
    (AvalancheReturned
        /\ ToppleEvents(events) = <<Event("topple", FALSE, {})>>) =>
        /\ observables = Observables(0, 0)
        /\ DissipateEvents(events) = <<>>

\* C9 witness: such an avalanche returned although visited held marks on entry.
C9_Witness ==
    /\ AvalancheReturned
    /\ ToppleEvents(events) = <<Event("topple", FALSE, {})>>
    /\ \E p \in DOMAIN visitedAtEntry : visitedAtEntry[p]
    /\ observables = Observables(0, 0)

\* C10: when topple returns true once and then false (marking nothing more),
\* AvalancheLoop returns 1 iteration and a size equal to the number of
\* distinct cells marked during the one relaxing round.
C10_SingleRound ==
    (AvalancheReturned
        /\ Len(ToppleEvents(events)) = 2
        /\ ToppleEvents(events)[1].ret
        /\ ToppleEvents(events)[2] = Event("topple", FALSE, {})) =>
        /\ observables.number_of_iterations = 1
        /\ observables.AvalancheSize = Cardinality(ToppleEvents(events)[1].marks)

\* C10 witness: a single relaxing round that marked the source and its
\* neighbours, after marks were present on entry.
C10_Witness ==
    /\ AvalancheReturned
    /\ Len(ToppleEvents(events)) = 2
    /\ ToppleEvents(events)[1].ret
    /\ ToppleEvents(events)[2] = Event("topple", FALSE, {})
    /\ Cardinality(ToppleEvents(events)[1].marks) > 1
    /\ \E p \in DOMAIN visitedAtEntry : visitedAtEntry[p]
    /\ observables.number_of_iterations = 1


---------------------------------------------------------------------------
(* Properties of the base-class methods and of the record *)

\* positions of run that lie after the call of drive in a driving step
AfterDrivePositions == {"avalanche", "topple", "dissipate", "return", "append", "snapshot"}
\* positions of run that lie after a call of topple has returned
AfterTopplePositions == {"dissipate", "return", "append", "snapshot"}

OpsOf(es) == {es[k].op : k \in 1 .. Len(es)}

\* C12: a model that does not override drive or topple fails at the first call
\* of the missing method with NotImplementedError; run stops at that step,
\* with no record appended and no snapshot written for it.
C12_MissingMethodStopsRun ==
    /\ pc \in AfterDrivePositions => "drive" \in model
    /\ pc \in AfterTopplePositions => "topple" \in model
    /\ error = "NotImplementedError" =>
          /\ pc = "failed"
          /\ ~ConcreteModel
          /\ i = 0
          /\ Len(data_acquisition) = len0
          /\ written = {}
          /\ OpsOf(events) \cap {"append", "snapshot"} = {}
          /\ events[Len(events)].op = (IF "drive" \in model THEN "topple" ELSE "drive")

\* C12 witness: run(N) with N >= 2 stopped in its first step at the missing
\* topple, after drive had changed values.
C12_Witness ==
    /\ error = "NotImplementedError"
    /\ "drive" \in model
    /\ N_iterations >= 2
    /\ values # Zeros(L)
    /\ data_acquisition = <<>>

RecordKeys == {"AvalancheSize", "number_of_iterations"}

\* C13 (as claimed): every record has a field named avalanche_size and a field
\* named number_of_iterations.
C13_FieldNamesAsClaimed ==
    \A k \in 1 .. Len(data_acquisition) :
        {"avalanche_size", "number_of_iterations"} \subseteq DOMAIN data_acquisition[k]

\* C13 (amended): every record has exactly the fields AvalancheSize and
\* number_of_iterations.
C13_FieldNames ==
    /\ AvalancheReturned => DOMAIN observables = RecordKeys
    /\ \A k \in 1 .. Len(data_acquisition) : DOMAIN data_acquisition[k] = RecordKeys

\* C13 witness: a run has appended records.
C13_Witness ==
    /\ pc = "done"
    /\ Len(data_acquisition) >= 2
    /\ "AvalancheSize" \in DOMAIN data_acquisition[1]

---------------------------------------------------------------------------
(* Properties of the order of calls *)

\* the topple and dissipate calls of the current avalanche, in order
AvalancheEvents(es) == SelectSeq(es, LAMBDA e : e.op \in {"topple", "dissipate"})

\* the last topple call of the current step returned ret
LastToppleReturned(ret) ==
    /\ ToppleEvents(events) # <<>>
    /\ ToppleEvents(events)[Len(ToppleEvents(events))].ret = ret

\* C14: within one avalanche dissipate is called exactly once after each
\* topple call that returned true and before the next topple call, never after
\* one that returned false; the returned number_of_iterations is the number of
\* topple calls that returned true, and topple is called that many times plus one.
C14_DissipateAfterEachTrueTopple ==
    LET av == AvalancheEvents(events) IN
    /\ \A k \in 1 .. Len(av) :
          /\ av[k].op = "dissipate" =>
                k > 1 /\ av[k - 1].op = "topple" /\ av[k - 1].ret
          /\ (av[k].op = "topple" /\ k > 1) => av[k - 1].op = "dissipate"
          /\ (av[k].op = "topple" /\ ~av[k].ret) => k = Len(av)
    /\ pc = "topple" => (av = <<>> \/ av[Len(av)].op = "dissipate")
    /\ AvalancheReturned =>
          /\ observables.number_of_iterations = TrueRounds(events)
          /\ Len(ToppleEvents(events)) = observables.number_of_iterations + 1
          /\ Len(DissipateEvents(events)) = observables.number_of_iterations

\* C14 witness: an avalanche of two relaxing rounds has returned.
C14_Witness ==
    /\ AvalancheReturned
    /\ observables.number_of_iterations = 2
    /\ Len(DissipateEvents(events)) = 2

\* C15: visited is all-false when the first topple of an avalanche is called,
\* and the size returned counts exactly the cells the topple calls of this
\* step marked: marks of earlier avalanches or of drive do not contribute.
C15_VisitedResetPerAvalanche ==
    /\ (pc = "topple" /\ ToppleEvents(events) = <<>>) =>
          \A p \in DOMAIN visited : ~visited[p]
    /\ AvalancheReturned =>
          observables.AvalancheSize = Cardinality(ToppleMarked(events))

\* C15 witness: an avalanche returned after drive had marked a cell and an
\* earlier avalanche had left marks on cells this avalanche did not mark.
C15_Witness ==
    /\ AvalancheReturned
    /\ events[1].marks # {}
    /\ ToppleMarked(events) # {}
    /\ \E p \in DOMAIN visitedAtEntry :
          /\ visitedAtEntry[p]
          /\ p \notin ToppleMarked(events)
          /\ p \notin events[1].marks

\* The interpreter keeps executing: a step that can be taken is taken.
FairSpec == Spec /\ WF_vars(Next)

\* C16: AvalancheLoop returns exactly when topple returns false: it returns
\* only after a topple call that returned false, after a call that returned
\* true it always goes on to dissipate and another topple call, and once
\* topple (of a model that has one) is called the loop eventually returns.
C16_ReturnsExactlyOnFalse ==
    /\ [](pc = "return" => LastToppleReturned(FALSE))
    /\ []((LastToppleReturned(TRUE) /\ pc # "drive") => pc \in {"dissipate", "topple"})
    /\ ((pc = "topple" /\ "topple" \in model) ~> (pc = "return"))

\* C16 witness: the loop is about to return after the largest number of
\* relaxing rounds.
C16_Witness ==
    /\ pc = "return"
    /\ number_of_iterations = MaxRounds
    /\ LastToppleReturned(FALSE)

\* position of a call in the order of one driving step
Rank(op) ==
    CASE op = "drive" -> 1
      [] op \in {"topple", "dissipate"} -> 2
      [] op = "append" -> 3
      [] op = "snapshot" -> 4

\* C17: the calls of one driving step come in the order drive, the whole
\* avalanche, the append, the optional snapshot; drive of the next step is
\* called only after topple returned false and the record was appended.
C17_StepsAreSequential ==
    /\ \A k \in 1 .. Len(events) :
          /\ (k = 1) <=> (events[k].op = "drive")
          /\ k > 1 => Rank(events[k - 1].op) <= Rank(events[k].op)
          /\ events[k].op = "append" =>
                k > 1 /\ events[k - 1].op = "topple" /\ ~events[k - 1].ret
          /\ events[k].op = "snapshot" => k > 1 /\ events[k - 1].op = "append"
    /\ (pc = "drive" /\ i > 0) =>
          /\ "append" \in OpsOf(events)
          /\ LastToppleReturned(FALSE)
    /\ pc \in {"drive"} \cup AfterDrivePositions =>
          Len(data_acquisition) = len0 + i + (IF pc = "snapshot" THEN 1 ELSE 0)

\* C17 witness: drive of a later step is about to be called after a step with
\* a relaxing round, an append and a snapshot.
C17_Witness ==
    /\ pc = "drive"
    /\ i >= 1
    /\ TrueRounds(events) >= 1
    /\ events[Len(events)].op = "snapshot"

\* C18: data_acquisition is append-only: a step of the program either leaves
\* it unchanged or adds one record at its end, the latter exactly at the
\* append of a driving step; this holds across calls of run, so that at the
\* head of the loop and at the return of run its length is the sum of the
\* step counts of the earlier runs plus the steps done in this one.
C18_AppendOnly ==
    /\ [](pc \in {"drive", "done"} => Len(data_acquisition) = priorSteps + i)
    /\ [](pc = "done" => Len(data_acquisition) = priorSteps + N_iterations)
    /\ [][/\ Len(data_acquisition') \in {Len(data_acquisition), Len(data_acquisition) + 1}
          /\ SubSeq(data_acquisition', 1, Len(data_acquisition)) = data_acquisition
          /\ (Len(data_acquisition') = Len(data_acquisition) + 1) <=> (pc = "append")]_vars

\* C18 witness: a second call of run has returned after appending to the
\* records of the first.
C18_Witness ==
    /\ pc = "done"
    /\ len0 > 0
    /\ N_iterations > 0
    /\ Len(data_acquisition) = len0 + N_iterations

\* C19: a snapshot is written only when the avalanche of the same driving
\* step has ended (the most recent topple call returned false) and its record
\* was appended; it is the last call of the step, never between topple rounds.
C19_SnapshotWhenQuiescent ==
    /\ pc = "snapshot" =>
          /\ LastToppleReturned(FALSE)
          /\ events[Len(events)].op = "append"
    /\ \A k \in 1 .. Len(events) :
          events[k].op = "snapshot" =>
              /\ k = Len(events)
              /\ k >= 3
              /\ events[k - 1].op = "append"
              /\ events[k - 2].op = "topple"
              /\ ~events[k - 2].ret
              /\ pc \in {"drive", "done"}

\* C19 witness: a snapshot was written at the end of a step whose avalanche
\* had a relaxing round.
C19_Witness ==
    /\ Len(events) >= 1
    /\ events[Len(events)].op = "snapshot"
    /\ TrueRounds(events) >= 1
    /\ written # {}

\* C20 (as claimed): Simulation.clean_boundary_inplace(array) returns what
\* clean_boundary_inplace(array, BOUNDARY_SIZE) returns, without raising.
C20_WrapperEqualsFunction ==
    wrapped =>
        /\ error = "none"
        /\ array = clean_boundary_inplace(array0, BOUNDARY_SIZE, 0)

=============================================================================
